---- MODULE Spec2Model ----
(***************************************************************************)
(* A model of the AEOS infographics dashboard: the animation frame         *)
(* generator (presentation_animator.create_animated_visualization), the    *)
(* chart mapper (visualization.create_advanced_visualization), the insight *)
(* parser (ai_helpers.clean_and_parse_json / insights.generate_insights),  *)
(* the runs of main, the frame-to-video encoder                            *)
(* (presentation_animator.generate_video_from_frames) and the animation    *)
(* export handler that calls it (add_animation_interface).                 *)
(*                                                                         *)
(* Each component has its own specification (SpecAnim, SpecViz, SpecParse, *)
(* SpecSession, SpecVideo, SpecExport) over its own variables; the         *)
(* variables of the other components stay at their idle values, except     *)
(* that the export handler drives the encoder.                             *)
(*                                                                         *)
(* Floating-point progress values are modelled as exact rationals: a       *)
(* progress value at frame i of N is the integer numerator EaseNum(i, N)   *)
(* over the denominator EaseDen(N) = 2 * N^3.                              *)
(***************************************************************************)
EXTENDS Integers, Sequences, FiniteSets, TLC

VARIABLES
    \* create_animated_visualization
    a_pc, a_df, a_cfg, a_duration, a_fps, a_i, a_frames, a_ret,
    \* what logger.error recorded, and what the calling stage reported
    a_logged, a_stage,
    \* create_advanced_visualization
    v_pc, v_type, v_config, v_ret, v_errors, v_raised,
    \* generate_insights
    p_pc, p_client_ok, p_df_ok, p_df, p_api, p_ret, p_errors, p_raised, p_calls,
    \* main: the environment, st.session_state, and what the last run of the
    \* script handled, reported and called
    s_api_key, s_data_loaded, s_df, s_active_tab, s_insights,
    s_event, s_msgs, s_insight_calls,
    \* how the last run ended, whether it invoked cleanup_temp_files, and the
    \* temporary files of the working directory
    s_end, s_cleaned, s_fs,
    \* generate_video_from_frames: its arguments, the file system, its locals
    \* and what it returned
    e_pc, e_n, e_given, e_fs, e_undecodable, e_i, e_image_files,
    e_writer, e_written, e_frames_written, e_ret,
    \* how many times cv2.imread was called
    e_reads,
    \* add_animation_interface after "Generate Animation": its position, what
    \* it reported, and whether it made the download link
    x_pc, x_msgs, x_link

animVars ==
    <<a_pc, a_df, a_cfg, a_duration, a_fps, a_i, a_frames, a_ret,
      a_logged, a_stage>>

vizVars == <<v_pc, v_type, v_config, v_ret, v_errors, v_raised>>

parseVars ==
    <<p_pc, p_client_ok, p_df_ok, p_df, p_api, p_ret, p_errors, p_raised,
      p_calls>>

sessionState == <<s_data_loaded, s_df, s_active_tab, s_insights>>

sessVars ==
    <<s_api_key, sessionState, s_event, s_msgs, s_insight_calls,
      s_end, s_cleaned, s_fs>>

videoVars ==
    <<e_pc, e_n, e_given, e_fs, e_undecodable, e_i, e_image_files,
      e_writer, e_written, e_frames_written, e_ret, e_reads>>

exportVars == <<x_pc, x_msgs, x_link>>

vars == <<animVars, vizVars, parseVars, sessVars, videoVars, exportVars>>

\* What an action of one component leaves alone: the other components.
notAnim == <<vizVars, parseVars, sessVars, videoVars, exportVars>>

notViz == <<animVars, parseVars, sessVars, videoVars, exportVars>>

notParse == <<animVars, vizVars, sessVars, videoVars, exportVars>>

notSess == <<animVars, vizVars, parseVars, videoVars, exportVars>>

notVideo == <<animVars, vizVars, parseVars, sessVars, exportVars>>

\* The export handler drives the encoder: it leaves the other three alone.
notExport == <<animVars, vizVars, parseVars, sessVars>>

(***************************************************************************)
(* Bounds of the model.                                                    *)
(***************************************************************************)
MaxRows == 3
MaxDuration == 2
MaxFps == 3

MaxText == 4

MaxFrames == 3

(***************************************************************************)
(* Generic helpers.                                                        *)
(***************************************************************************)
Min(a, b) == IF a <= b THEN a ELSE b

Max(a, b) == IF a >= b THEN a ELSE b

\* xs[:k] of Python for k >= 0: the first k elements, or all when k > len.
Prefix(xs, k) == SubSeq(xs, 1, Min(k, Len(xs)))

\* A Python dict is a function from the keys it holds; d[k] raises KeyError
\* when Has(d, k) is false.
Has(d, k) == k \in DOMAIN d

\* The dicts of S, and each of them with key k added, holding one of vals.
With(S, k, vals) == S \cup {d @@ (k :> v) : d \in S, v \in vals}

(***************************************************************************)
(* Column names are short character sequences, so that str.title() can be  *)
(* computed on them.                                                       *)
(***************************************************************************)
Region == <<"R", "e">>

Sales == <<"s", "a">>

Ghost == <<"g", "_", "h">>

\* The columns of every table of the model; Ghost names a column that no
\* table has.
TableColumns == {Region, Sales}

\* The numeric values a row may hold.
YVals == {1, 3}

Tables == UNION {[1..n -> YVals] : n \in 0..MaxRows}

(***************************************************************************)
(* easing_function, on t = i / n, as a numerator over EaseDen(n).          *)
(*   t**3                       = 2 i^3 / (2 n^3)          if t < 0.5      *)
(*   1 - (-2 t + 2)**3 / 2      = (2 n^3 - (2n - 2i)^3) / (2 n^3)  else    *)
(***************************************************************************)
EaseDen(n) == 2 * n * n * n

\* The first branch of easing_function, t**3, at t = i / n, as a numerator
\* over EaseDen(n): the value the branch takes where its guard t < 0.5 ends.
EaseInNum(i, n) == 2 * i * i * i

\* easing_function with the halving of the second branch left out:
\* 1 - (-2 t + 2)**3.
EaseNumNoHalf(i, n) ==
    IF 2 * i < n
    THEN 2 * i * i * i
    ELSE EaseDen(n) - 2 * ((2 * n - 2 * i) * (2 * n - 2 * i) * (2 * n - 2 * i))

EaseNum(i, n) ==
    IF 2 * i < n
    THEN 2 * i * i * i
    ELSE EaseDen(n) - (2 * n - 2 * i) * (2 * n - 2 * i) * (2 * n - 2 * i)

(***************************************************************************)
(* create_animated_visualization                                           *)
(***************************************************************************)
AnimTypes == {"basic_bar", "stacked_bar", "grouped_bar", "line", "scatter", "pie"}

\* The configurations of the model: for each chart kind the keys that kind
\* reads, each present or absent, naming a column of the table or not; one
\* unsupported kind; and a configuration with no type.
AnimConfigs ==
    UNION {With(With(With({[type |-> t]}, "x", {Region, Ghost}),
                     "y", {Sales, Ghost}), "title", {"T"}) :
             t \in {"basic_bar", "line", "scatter"}}
    \cup
    With(With(With({[type |-> "stacked_bar"]}, "x", {Region, Ghost}),
              "stack_columns", {<<>>, <<Sales>>, <<Sales, Ghost>>}), "title", {"T"})
    \cup
    With(With(With({[type |-> "grouped_bar"]}, "x", {Region, Ghost}),
              "group_columns", {<<>>, <<Sales>>, <<Sales, Ghost>>}), "title", {"T"})
    \cup
    With(With(With({[type |-> "pie"]}, "labels", {Region, Ghost}),
              "values", {Sales, Ghost}), "title", {"T"})
    \cup
    {[type |-> "heatmap", x |-> Region, y |-> Sales, title |-> "T"],
     [x |-> Region, y |-> Sales, title |-> "T"]}

\* df[viz_config[key]]: a KeyError when the configuration lacks the key or
\* the table lacks the column.
ColumnRaises(cfg, key) == ~Has(cfg, key) \/ cfg[key] \notin TableColumns

\* The statements of a branch before its loop: True when one of them raises.
SetupRaises(cfg) ==
    IF ~Has(cfg, "type") THEN TRUE
    ELSE CASE cfg.type \in {"basic_bar", "line", "scatter"} ->
                ColumnRaises(cfg, "y") \/ ColumnRaises(cfg, "x")
           [] cfg.type = "stacked_bar" ->
                ColumnRaises(cfg, "x") \/ ~Has(cfg, "stack_columns")
           [] cfg.type = "grouped_bar" ->
                ColumnRaises(cfg, "x") \/ ~Has(cfg, "group_columns")
           [] cfg.type = "pie" ->
                ColumnRaises(cfg, "values") \/ ColumnRaises(cfg, "labels")
           [] OTHER -> FALSE

\* One iteration of a branch's loop: True when the construction of the frame
\* raises on these inputs (a missing column of a column list, a missing
\* title, max() of an empty column).
FrameRaises(cfg, df) ==
    CASE cfg.type \in {"basic_bar", "line", "scatter"} ->
            ~Has(cfg, "title") \/ Len(df) = 0
      [] cfg.type = "stacked_bar" ->
            (\E k \in 1..Len(cfg.stack_columns) :
                cfg.stack_columns[k] \notin TableColumns)
            \/ ~Has(cfg, "title")
      [] cfg.type = "grouped_bar" ->
            (\E k \in 1..Len(cfg.group_columns) :
                cfg.group_columns[k] \notin TableColumns)
            \/ ~Has(cfg, "title")
      [] cfg.type = "pie" -> ~Has(cfg, "title")
      [] OTHER -> FALSE

\* points_to_show without its floor of 2: int(len(x_data) * progress).
PointsToShowNoFloor(n, i, total) == (n * EaseNum(i, total)) \div EaseDen(total)

\* points_to_show = max(2, int(len(x_data) * progress))
PointsToShow(n, i, total) == Max(2, (n * EaseNum(i, total)) \div EaseDen(total))

RECURSIVE CumSum(_, _)
\* The values themselves where their running total belongs.
CumSumNone(ys, k) == ys[k]

\* np.cumsum(values)[k - 1]
CumSum(ys, k) == IF k = 0 THEN 0 ELSE CumSum(ys, k - 1) + ys[k]

\* The figure of frame i. Progress-scaled numbers are numerators over
\* EaseDen(total); opacity of the bars is a numerator over 10 * EaseDen(total);
\* the pie's values are numerators over total.
MakeFrame(cfg, df, i, total) ==
    LET progress == EaseNum(i, total)
        den == EaseDen(total)
    IN CASE cfg.type = "basic_bar" ->
              [kind |-> "basic_bar",
               y |-> [k \in 1..Len(df) |-> df[k] * progress],
               opacity |-> Min(10 * den, 12 * progress)]
         [] cfg.type \in {"stacked_bar", "grouped_bar"} ->
              [kind |-> cfg.type,
               y |-> [k \in 1..Len(df) |-> df[k] * progress],
               opacity |-> Min(10 * den, 12 * progress)]
         [] cfg.type \in {"line", "scatter"} ->
              [kind |-> cfg.type,
               points_to_show |-> PointsToShow(Len(df), i, total),
               y |-> Prefix(df, PointsToShow(Len(df), i, total)),
               opacity |-> progress]
         [] cfg.type = "pie" ->
              [kind |-> "pie",
               y |-> [k \in 1..Len(df) |->
                        Min(df[k] * total, CumSum(df, k) * (i + 1))],
               textinfo |-> IF 10 * i < 8 * total THEN "none" ELSE "label+percent"]

TotalFrames == a_duration * a_fps

AnimInit ==
    /\ a_pc = "call"
    /\ a_df \in Tables
    /\ a_cfg \in AnimConfigs
    /\ a_duration \in 0..MaxDuration
    /\ a_fps \in 0..MaxFps
    /\ a_i = 0
    /\ a_frames = <<>>
    /\ a_ret = <<>>
    /\ a_logged = 0
    /\ a_stage = "none"

\* An except clause that returns the frames built so far.
AnimExceptReturnPartial(frames) == frames

\* What the except clause returns.
AnimExceptReturn(frames) == <<>>

AnimFail ==
    /\ a_pc' = "done"
    /\ a_ret' = AnimExceptReturn(a_frames)
    /\ a_logged' = a_logged + 1
    /\ UNCHANGED <<a_df, a_cfg, a_duration, a_fps, a_i, a_frames, a_stage>>

\* Lines 33-43 (and the head of each other branch): the dispatch on the type
\* and the reads of the columns. A kind no branch handles falls through to
\* "return frames" with the empty list.
AnimStart ==
    /\ UNCHANGED notAnim
    /\ a_pc = "call"
    /\ IF SetupRaises(a_cfg)
       THEN AnimFail
       ELSE /\ a_pc' = IF a_cfg.type \in AnimTypes THEN "loop" ELSE "return"
            /\ UNCHANGED <<a_df, a_cfg, a_duration, a_fps, a_i, a_frames, a_ret,
                         a_logged, a_stage>>

\* One iteration of "for i in range(total_frames)": the frame is built and
\* appended, or its construction raises and the except clause returns. The
\* figure library may also raise on its own (fault).
AnimFrame ==
    /\ UNCHANGED notAnim
    /\ a_pc = "loop"
    /\ a_i < TotalFrames
    /\ \E fault \in BOOLEAN :
        IF fault \/ FrameRaises(a_cfg, a_df)
        THEN AnimFail
        ELSE /\ a_frames' = Append(a_frames, MakeFrame(a_cfg, a_df, a_i, TotalFrames))
             /\ a_i' = a_i + 1
             /\ UNCHANGED <<a_pc, a_df, a_cfg, a_duration, a_fps, a_ret,
                          a_logged, a_stage>>

AnimLoopEnd ==
    /\ UNCHANGED notAnim
    /\ a_pc = "loop"
    /\ a_i >= TotalFrames
    /\ a_pc' = "return"
    /\ UNCHANGED <<a_df, a_cfg, a_duration, a_fps, a_i, a_frames, a_ret,
                         a_logged, a_stage>>

\* return frames
AnimReturn ==
    /\ UNCHANGED notAnim
    /\ a_pc = "return"
    /\ a_pc' = "done"
    /\ a_ret' = a_frames
    /\ UNCHANGED <<a_df, a_cfg, a_duration, a_fps, a_i, a_frames,
                   a_logged, a_stage>>

\* add_animation_interface, "if frames: ... else: st.error(...)": what the
\* stage that called the generator does with the list it got back.
AnimStage ==
    /\ UNCHANGED notAnim
    /\ a_pc = "done"
    /\ a_pc' = "reported"
    /\ a_stage' = IF a_ret = <<>> THEN "frames_failed" ELSE "generating_video"
    /\ UNCHANGED <<a_df, a_cfg, a_duration, a_fps, a_i, a_frames, a_ret,
                   a_logged>>

AnimNext == AnimStart \/ AnimFrame \/ AnimLoopEnd \/ AnimReturn \/ AnimStage

\* The frame generator before any call.
AnimIdle ==
    /\ a_pc = "idle" /\ a_df = <<>> /\ a_cfg = <<>> /\ a_duration = 0
    /\ a_fps = 0 /\ a_i = 0 /\ a_frames = <<>> /\ a_ret = <<>>
    /\ a_logged = 0 /\ a_stage = "none"

(***************************************************************************)
(* create_advanced_visualization                                           *)
(***************************************************************************)
LowerCase == {"a", "e", "g", "h", "r", "s"}

UpperOf == [c \in LowerCase |->
              CASE c = "a" -> "A" [] c = "e" -> "E" [] c = "g" -> "G"
                [] c = "h" -> "H" [] c = "r" -> "R" [] c = "s" -> "S"]

UpperCase == {UpperOf[c] : c \in LowerCase}

LowerOf == [c \in UpperCase |-> CHOOSE l \in LowerCase : UpperOf[l] = c]

IsCased(c) == c \in LowerCase \/ c \in UpperCase

RECURSIVE Title(_)
\* str.title(): a cased character that follows an uncased one (or starts the
\* string) is upper-cased, every other cased character is lower-cased.
Title(s) ==
    IF s = <<>> THEN <<>>
    ELSE LET init == SubSeq(s, 1, Len(s) - 1)
             c == s[Len(s)]
             previous_is_cased == init # <<>> /\ IsCased(init[Len(init)])
         IN Append(Title(init),
                   IF c \in LowerCase /\ ~previous_is_cased THEN UpperOf[c]
                   ELSE IF c \in UpperCase /\ previous_is_cased THEN LowerOf[c]
                   ELSE c)

\* The value None, and the argument color=None of plotly express.
NoneFig == [kind |-> "None"]

NoColor == <<"None">>

\* An exception e raised, or a value returned after `reported` calls of
\* st.error.
Raise(e) == [raised |-> e]

Return(value, reported) == [value |-> value, errors |-> reported]

\* px.bar / px.line / px.scatter: a ValueError when an argument names no
\* column of the table, else the figure. labels maps a column name to the
\* axis title shown for it; a column it lacks is shown under its own name.
PxChart(kind, x, y, color, barmode, title, labels) ==
    IF x \notin TableColumns \/ y \notin TableColumns
       \/ (color # NoColor /\ color \notin TableColumns)
    THEN Raise("ValueError")
    ELSE Return([kind |-> kind, x |-> x, y |-> y, color |-> color,
                 barmode |-> barmode, title |-> title,
                 xaxis_title |-> IF Has(labels, x) THEN labels[x] ELSE x,
                 yaxis_title |-> IF Has(labels, y) THEN labels[y] ELSE y], 0)

\* labels={config["x"]: config["x"].title(), config["y"]: config["y"].title()}
TitledLabels(config) ==
    (config.y :> Title(config.y)) @@ (config.x :> Title(config.x))

\* The kinds the if/elif chain has a branch for.
VizKindsNoScatter == {"basic_bar", "stacked_bar", "grouped_bar", "line"}

VizKinds == {"basic_bar", "stacked_bar", "grouped_bar", "line", "scatter"}

\* config.get("color") is truthy.
HasColor(config) == Has(config, "color") /\ config.color # <<>>

\* The body of the try block.
VizBody(viz_type, config) ==
    IF viz_type \notin VizKinds
    THEN Return(NoneFig, 1)
    ELSE IF ~Has(config, "x") \/ ~Has(config, "y") \/ ~Has(config, "title")
    THEN Raise("KeyError")
    ELSE CASE viz_type = "basic_bar" ->
                PxChart("bar", config.x, config.y, NoColor, "relative",
                        config.title, TitledLabels(config))
           [] viz_type = "stacked_bar" ->
                IF HasColor(config)
                THEN PxChart("bar", config.x, config.y, config.color, "relative",
                             config.title, TitledLabels(config))
                ELSE PxChart("bar", config.x, config.y, NoColor, "relative",
                             config.title, <<>>)
           [] viz_type = "grouped_bar" ->
                IF HasColor(config)
                THEN PxChart("bar", config.x, config.y, config.color, "group",
                             config.title, TitledLabels(config))
                ELSE PxChart("bar", config.x, config.y, NoColor, "relative",
                             config.title, <<>>)
           [] viz_type = "line" ->
                PxChart("line", config.x, config.y, NoColor, "n/a",
                        config.title, TitledLabels(config))
           [] viz_type = "scatter" ->
                PxChart("scatter", config.x, config.y, NoColor, "n/a",
                        config.title, TitledLabels(config))

\* An except clause that catches only the ValueError of the figure library.
CaughtValueErrorOnly(e) == e = "ValueError"

\* except Exception
Caught(e) == TRUE

\* The whole function: what it returns, how often it reports an error, and
\* whether an exception escapes it.
CreateAdvancedVisualization(viz_type, config) ==
    LET r == VizBody(viz_type, config)
    IN IF Has(r, "raised")
       THEN IF Caught(r.raised)
            THEN [ret |-> NoneFig, errors |-> 1, raised |-> FALSE]
            ELSE [ret |-> NoneFig, errors |-> 0, raised |-> TRUE]
       ELSE [ret |-> r.value, errors |-> r.errors, raised |-> FALSE]

\* The kinds a caller may pass: those of the selection list of visualize_data,
\* the animation-only kind and a kind nothing knows.
VizTypes ==
    {"basic_bar", "stacked_bar", "grouped_bar", "line", "scatter", "pie", "heatmap"}

\* The configurations of the model: each of x, y, color and title present or
\* absent; x, y and color naming a column of the table or not; color also
\* the empty string.
VizConfigs ==
    With(With(With(With({<<>>}, "x", {Region, Sales, Ghost}),
                   "y", {Region, Sales, Ghost}),
              "color", {<<>>, Region, Ghost}), "title", {"T"})

VizIdle ==
    /\ v_pc = "idle" /\ v_type = "" /\ v_config = <<>> /\ v_ret = NoneFig
    /\ v_errors = 0 /\ v_raised = FALSE

VizInit ==
    /\ v_pc = "call"
    /\ v_type \in VizTypes
    /\ v_config \in VizConfigs
    /\ v_ret = NoneFig
    /\ v_errors = 0
    /\ v_raised = FALSE

VizCall ==
    /\ v_pc = "call"
    /\ v_pc' = "done"
    /\ LET r == CreateAdvancedVisualization(v_type, v_config)
       IN /\ v_ret' = r.ret
          /\ v_errors' = v_errors + r.errors
          /\ v_raised' = r.raised
    /\ UNCHANGED <<v_type, v_config>>
    /\ UNCHANGED notViz

VizNext == VizCall
(***************************************************************************)
(* clean_and_parse_json and generate_insights                              *)
(*                                                                         *)
(* A response text is a sequence of characters over a small alphabet: the  *)
(* two braces, "k" for a key with its colon, "v" for a scalar value and    *)
(* "p" for any character of prose. The JSON grammar over it is             *)
(*     value ::= "v" | "{" "}" | "{" "k" value "}"                         *)
(***************************************************************************)
Chars == {"{", "}", "k", "v", "p"}

Texts == UNION {[1..n -> Chars] : n \in 0..MaxText}

\* str.find(c): the 0-based index of the first c, or -1.
Find(text, c) ==
    IF \E i \in 1..Len(text) : text[i] = c
    THEN (CHOOSE i \in 1..Len(text) :
            text[i] = c /\ \A j \in 1..(i - 1) : text[j] # c) - 1
    ELSE -1

\* str.rfind(c): the 0-based index of the last c, or -1.
RFind(text, c) ==
    IF \E i \in 1..Len(text) : text[i] = c
    THEN (CHOOSE i \in 1..Len(text) :
            text[i] = c /\ \A j \in (i + 1)..Len(text) : text[j] # c) - 1
    ELSE -1

\* text[a:b] for 0-based a, b >= 0: empty when a >= b.
Slice(text, a, b) == SubSeq(text, a + 1, Min(b, Len(text)))

\* The slice with its end one short: response_content[start_idx:end_idx].
JsonStrNoLast(text, start_idx, end_idx) == Slice(text, start_idx, end_idx)

\* json_str = response_content[start_idx:end_idx + 1]
JsonStr(text, start_idx, end_idx) == Slice(text, start_idx, end_idx + 1)

NoParse == [next |-> 0, value |-> <<>>]

RECURSIVE ParseValue(_, _)
\* The JSON value that starts at position i of s (1-based): the position
\* after it and the parsed value, or NoParse. A scalar parses to <<"v">>, an
\* object to <<"obj">> followed by the value of its member, if it has one.
ParseValue(s, i) ==
    IF i > Len(s) THEN NoParse
    ELSE IF s[i] = "v" THEN [next |-> i + 1, value |-> <<"v">>]
    ELSE IF s[i] # "{" \/ i + 1 > Len(s) THEN NoParse
    ELSE IF s[i + 1] = "}" THEN [next |-> i + 2, value |-> <<"obj">>]
    ELSE IF s[i + 1] # "k" THEN NoParse
    ELSE LET member == ParseValue(s, i + 2)
         IN IF member.next # 0 /\ member.next <= Len(s) /\ s[member.next] = "}"
            THEN [next |-> member.next + 1, value |-> <<"obj", member.value>>]
            ELSE NoParse

\* json.loads: the parsed value, or a JSONDecodeError when the text is not
\* exactly one JSON value.
JsonLoads(s) ==
    LET r == ParseValue(s, 1)
    IN IF r.next = Len(s) + 1 THEN Return(r.value, 0) ELSE Raise("JSONDecodeError")

\* clean_and_parse_json: a JSONDecodeError is re-raised as a ValueError, as
\* is the lack of a brace.
CleanAndParseJson(response_content) ==
    LET start_idx == Find(response_content, "{")
        end_idx == RFind(response_content, "}")
    IN IF start_idx = -1 \/ end_idx = -1
       THEN Raise("ValueError")
       ELSE LET r == JsonLoads(JsonStr(response_content, start_idx, end_idx))
            IN IF Has(r, "raised") THEN Raise("ValueError") ELSE r

\* The value None of st.session_state.df, and a DataFrame of the given rows.
NoneDf == [none |-> TRUE]

DataFrame(rows) == [rows |-> rows]

\* The value None of generate_insights.
NoInsights == <<"None">>

\* The outcome of the remote completion call: an exception (network, auth),
\* or the text of the response.
ApiError == <<"error">>

ApiOutcomes == {ApiError} \cup Texts

\* generate_insights without its two isinstance checks: the remote call is
\* made whatever the arguments are.
GenerateInsightsUnchecked(client_ok, df_ok, api) ==
    IF api = ApiError
    THEN [ret |-> NoInsights, errors |-> 1, calls |-> 1, raised |-> FALSE]
    ELSE LET r == CleanAndParseJson(api)
         IN IF Has(r, "raised")
            THEN [ret |-> NoInsights, errors |-> 1, calls |-> 1, raised |-> FALSE]
            ELSE [ret |-> r.value, errors |-> 0, calls |-> 1, raised |-> FALSE]

\* generate_insights: what it returns, how often it reports an error, how
\* often it calls the remote endpoint, and whether an exception escapes it.
GenerateInsights(client_ok, df_ok, api) ==
    IF ~client_ok \/ ~df_ok
    THEN [ret |-> NoInsights, errors |-> 1, calls |-> 0, raised |-> FALSE]
    ELSE IF api = ApiError
    THEN [ret |-> NoInsights, errors |-> 1, calls |-> 1, raised |-> FALSE]
    ELSE LET r == CleanAndParseJson(api)
         IN IF Has(r, "raised")
            THEN [ret |-> NoInsights, errors |-> 1, calls |-> 1, raised |-> FALSE]
            ELSE [ret |-> r.value, errors |-> 0, calls |-> 1, raised |-> FALSE]

\* The df argument: a table, or an object that is not a DataFrame (None).
InsightArgs == {NoneDf, DataFrame(<<>>), DataFrame(<<1>>), DataFrame(<<3, 1>>)}

ParseIdle ==
    /\ p_pc = "idle" /\ p_client_ok = FALSE /\ p_df_ok = FALSE /\ p_api = ApiError
    /\ p_df = NoneDf
    /\ p_ret = NoInsights /\ p_errors = 0 /\ p_raised = FALSE /\ p_calls = 0

ParseInit ==
    /\ p_pc = "call"
    /\ p_client_ok \in BOOLEAN
    /\ p_df \in InsightArgs
    /\ p_df_ok = (p_df # NoneDf)
    /\ p_api \in ApiOutcomes
    /\ p_ret = NoInsights
    /\ p_errors = 0
    /\ p_raised = FALSE
    /\ p_calls = 0

ParseCall ==
    /\ p_pc = "call"
    /\ p_pc' = "done"
    /\ LET r == GenerateInsights(p_client_ok, p_df_ok, p_api)
       IN /\ p_ret' = r.ret
          /\ p_errors' = p_errors + r.errors
          /\ p_calls' = p_calls + r.calls
          /\ p_raised' = r.raised
    /\ UNCHANGED <<p_client_ok, p_df_ok, p_df, p_api>>
    /\ UNCHANGED notParse

ParseNext == ParseCall

(***************************************************************************)
(* main of streamlit_env: one action per run of the script, by the widget  *)
(* the user acted on.                                                      *)
(***************************************************************************)
Tabs == {"Visualization", "Insights", "Data Profile", "Animation"}

\* df.empty
Empty(df) == Len(df.rows) = 0

\* An uploaded file: one pd.read_csv raises on, or one it reads as a table
\* (of 0 rows when the file holds a header only).
BadFile == [bad |-> TRUE]

Files == {BadFile} \cup {[rows |-> t] : t \in Tables}

\* load_data: None when pd.read_csv raises.
LoadData(file) == IF Has(file, "bad") THEN NoneDf ELSE DataFrame(file.rows)

\* What text_to_dataframe_with_ai returns: None, or the table the model's
\* answer describes.
TextFrames == {NoneDf} \cup {DataFrame(t) : t \in Tables}

\* The outcomes of the remote call that the session draws from.
SessionApiOutcomes == {ApiError, <<"{", "}">>, <<"p", "{">>}

\* A guard that forgets df.empty.
AcceptsNotNone(df) == df # NoneDf

\* if df is not None and not df.empty
Accepts(df) == df # NoneDf /\ ~Empty(df)

\* temp_report.html, visualization.mp4 and temp_frames of the working
\* directory.
ReportHtml == <<"cwd", "html", 0>>

CwdVideo == <<"cwd", "mp4", 0>>

IsCleanupTarget(path) ==
    path \in {ReportHtml, CwdVideo} \/ path[1] = "temp_frames"

\* cleanup_temp_files: the three paths are removed when they exist; when a
\* removal raises, the except clause turns it into a warning and what was
\* not yet removed stays. No exception leaves the function.
CleanupTempFiles(fs, unlink_fails) ==
    LET found == {path \in fs : IsCleanupTarget(path)}
    IN IF unlink_fails /\ found # {}
       THEN [fs |-> fs, warned |-> TRUE, raised |-> FALSE]
       ELSE [fs |-> fs \ found, warned |-> FALSE, raised |-> FALSE]

\* init_groq_client: the messages it reports; it returns None through its
\* except clause when GROQ_API_KEY is not set ("if not api_key: raise").
InitGroqClientErrors(api_key) == IF api_key THEN {} ELSE {"client_init_error"}

\* A main that goes on without a client.
ClientOkAlways == TRUE

\* init_groq_client: None when GROQ_API_KEY is not set.
ClientOk == s_api_key

\* initialize_session_state on a session state that holds some of the four
\* keys: a key that is absent gets its default, one that is present keeps
\* its value.
SessionDefaults ==
    [data_loaded |-> FALSE, df |-> NoneDf, active_tab |-> "Visualization",
     insights |-> NoInsights]

InitializeSessionState(state) ==
    [key \in DOMAIN SessionDefaults |->
        IF Has(state, key) THEN state[key] ELSE SessionDefaults[key]]

\* st.session_state as the script sees it.
SessionDict ==
    [data_loaded |-> s_data_loaded, df |-> s_df, active_tab |-> s_active_tab,
     insights |-> s_insights]

\* The session before any script run.
SessIdle ==
    /\ s_api_key = FALSE /\ s_data_loaded = FALSE /\ s_df = NoneDf
    /\ s_active_tab = "Visualization" /\ s_insights = NoInsights
    /\ s_event = [kind |-> "idle"] /\ s_msgs = {} /\ s_insight_calls = 0
    /\ s_end = "none" /\ s_cleaned = FALSE /\ s_fs = {}

\* initialize_session_state on a fresh session.
SessInit ==
    /\ s_api_key \in BOOLEAN
    /\ s_data_loaded = FALSE
    /\ s_df = NoneDf
    /\ s_active_tab = "Visualization"
    /\ s_insights = NoInsights
    /\ s_event = [kind |-> "start"]
    /\ s_msgs = {}
    /\ s_insight_calls = 0
    /\ s_end = "none"
    /\ s_cleaned = FALSE
    /\ s_fs = {}

\* Lines 148-151: no client, the run reports it and returns.
MainNoClient ==
    /\ ~ClientOk
    /\ s_event' = [kind |-> "no_client"]
    /\ s_msgs' = InitGroqClientErrors(s_api_key) \cup {"client_failed"}
    /\ s_end' = "early_return"
    /\ s_cleaned' = FALSE
    /\ UNCHANGED <<s_api_key, sessionState, s_insight_calls, s_fs>>
    /\ UNCHANGED notSess

\* Navigation buttons that are never disabled.
MainNavigateAlways ==
    /\ ClientOk
    /\ \E tab \in Tabs :
        /\ s_active_tab' = tab
        /\ s_event' = [kind |-> "navigate", tab |-> tab]
    /\ s_msgs' = {}
    /\ s_end' = "rerun"
    /\ s_cleaned' = FALSE
    /\ UNCHANGED <<s_api_key, s_data_loaded, s_df, s_insights, s_insight_calls,
                   s_fs>>
    /\ UNCHANGED notSess

\* Lines 162-171: a navigation button, enabled only once data is loaded,
\* sets the active tab and reruns the script.
MainNavigate ==
    /\ ClientOk
    /\ s_data_loaded
    /\ \E tab \in Tabs :
        /\ s_active_tab' = tab
        /\ s_event' = [kind |-> "navigate", tab |-> tab]
    /\ s_msgs' = {}
    /\ s_end' = "rerun"
    /\ s_cleaned' = FALSE
    /\ UNCHANGED <<s_api_key, s_data_loaded, s_df, s_insights, s_insight_calls,
                   s_fs>>
    /\ UNCHANGED notSess

\* The body shared by the two load handlers (lines 203-211, 219-227): the
\* table is stored and insights are requested, or the input is reported as
\* invalid.
LoadFrame(df, kind, invalid_msg) ==
    IF Accepts(df)
    THEN \E api \in SessionApiOutcomes :
            LET r == GenerateInsights(ClientOk, TRUE, api)
            IN /\ s_df' = df
               /\ s_data_loaded' = TRUE
               /\ s_insights' = r.ret
               /\ s_insight_calls' = s_insight_calls + 1
               /\ s_msgs' = {"success"} \cup
                            (IF r.errors > 0 THEN {"insights_failed"} ELSE {})
               /\ s_event' = [kind |-> kind, df |-> df, accepted |-> TRUE]
               /\ s_end' = "rerun"
               /\ s_cleaned' = FALSE
               /\ UNCHANGED <<s_api_key, s_active_tab, s_fs>>
    ELSE \E unlink_fails \in BOOLEAN :
            LET c == CleanupTempFiles(s_fs, unlink_fails)
            IN /\ s_msgs' = {invalid_msg} \cup
                            (IF c.warned THEN {"cleanup_warning"} ELSE {})
               /\ s_event' = [kind |-> kind, df |-> df, accepted |-> FALSE]
               /\ s_end' = "return"
               /\ s_cleaned' = TRUE
               /\ s_fs' = c.fs
               /\ UNCHANGED <<s_api_key, sessionState, s_insight_calls>>

\* Lines 200-213: "Process File Upload" with a file chosen.
MainUploadFile ==
    /\ ClientOk
    /\ ~s_data_loaded
    /\ \E file \in Files : LoadFrame(LoadData(file), "upload", "invalid_upload")
    /\ UNCHANGED notSess

\* Lines 216-229: "Process Survey Text with AI" with a text entered.
MainSurveyText ==
    /\ ClientOk
    /\ ~s_data_loaded
    /\ \E df \in TextFrames : LoadFrame(df, "survey_text", "invalid_text")
    /\ UNCHANGED notSess

\* display_insights indexes each insight by 'title', 'description' and
\* 'importance' (line 88) outside any try: a KeyError when the model's answer
\* lacks one. It is the handler of the Insights tab when insights is truthy.
HandlerMayRaise(loaded, tab, insights) ==
    loaded /\ tab = "Insights" /\ insights # NoInsights

\* A render whose Data Profile handler edits the table in place.
MainRenderEditsTable ==
    /\ ClientOk
    /\ s_data_loaded /\ s_active_tab = "Data Profile"
    /\ s_df' = DataFrame(Prefix(s_df.rows, Len(s_df.rows) - 1))
    /\ s_event' = [kind |-> "render", tab |-> s_active_tab]
    /\ s_msgs' = {}
    /\ s_end' = "return"
    /\ s_cleaned' = TRUE
    /\ UNCHANGED <<s_api_key, s_data_loaded, s_active_tab, s_insights,
                   s_insight_calls, s_fs>>
    /\ UNCHANGED notSess

\* A run in which no button was pressed (lines 187-257 and 261-265): the
\* upload form, or the active tab, is drawn. The Data Profile tab writes
\* temp_report.html unless the report fails first, which its own except
\* clause reports; an exception of another handler reaches the except clause
\* of the script's top level. Either way cleanup_temp_files runs last.
MainRender ==
    /\ ClientOk
    /\ \E raises \in BOOLEAN, report_fails \in BOOLEAN, unlink_fails \in BOOLEAN :
        LET profile == s_data_loaded /\ s_active_tab = "Data Profile"
            caught == raises /\ HandlerMayRaise(s_data_loaded, s_active_tab,
                                                 s_insights)
            written == IF profile /\ ~report_fails THEN {ReportHtml} ELSE {}
            c == CleanupTempFiles(s_fs \cup written, unlink_fails)
        IN /\ raises => caught
           /\ report_fails => profile
           /\ s_msgs' = (IF profile /\ report_fails THEN {"profile_error"} ELSE {})
                        \cup (IF caught THEN {"unexpected_error"} ELSE {})
                        \cup (IF c.warned THEN {"cleanup_warning"} ELSE {})
           /\ s_end' = IF caught THEN "caught" ELSE "return"
           /\ s_cleaned' = TRUE
           /\ s_fs' = c.fs
    /\ s_event' = [kind |-> "render", tab |-> s_active_tab]
    /\ UNCHANGED <<s_api_key, sessionState, s_insight_calls>>
    /\ UNCHANGED notSess

SessNext ==
    MainNoClient \/ MainNavigate \/ MainUploadFile \/ MainSurveyText \/ MainRender

(***************************************************************************)
(* generate_video_from_frames                                              *)
(*                                                                         *)
(* A path of the file system is <<directory, kind, index>>: the directory  *)
(* itself (kind "dir"), a still image of it ("png", by frame index) or the *)
(* video ("mp4"). The directories are "frames" (the TemporaryDirectory of  *)
(* line 197), "out" (the mkdtemp of line 192) and "given" (the directory   *)
(* of an output_path the caller passed); the operating system hands out a  *)
(* fresh name for each temporary directory, so the three are distinct.     *)
(***************************************************************************)
FramesDir == <<"frames", "dir", 0>>

ImagePath(i) == <<"frames", "png", i>>

\* Lines 191-193: the caller's output_path, or visualization.mp4 in a fresh
\* directory.
OutputPath(given) == IF given THEN <<"given", "mp4", 0>> ELSE <<"out", "mp4", 0>>

\* os.path.dirname(os.path.abspath(output_path))
DirOf(path) == <<path[1], "dir", 0>>

\* A directory removed by hand before the final return only.
RemovedOnReturnOnly(how) == how = "return"

\* tempfile.TemporaryDirectory().__exit__ removes the directory however the
\* with block of line 197 is left: by the return of line 233 ("return"), by an
\* early return of line 211 or 216 ("abort"), or by an exception
\* ("exception").
RemovedOnExit(how) == TRUE

\* The file system after the with block is left: without the temporary frame
\* directory and everything in it.
LeaveWith(fs, how) ==
    IF RemovedOnExit(how) THEN {path \in fs : path[1] # "frames"} ELSE fs

VideoIdle ==
    /\ e_pc = "idle" /\ e_n = 0 /\ e_given = FALSE /\ e_fs = {}
    /\ e_undecodable = {} /\ e_i = 0 /\ e_image_files = <<>>
    /\ e_writer = "none" /\ e_written = <<>> /\ e_frames_written = 0
    /\ e_ret = "pending" /\ e_reads = 0

\* The call: frames 0..e_n-1, with or without an output_path.
VideoInit ==
    /\ e_pc = "call"
    /\ e_n \in 0..MaxFrames
    /\ e_given \in BOOLEAN
    /\ e_fs = {}
    /\ e_undecodable = {}
    /\ e_i = 0
    /\ e_image_files = <<>>
    /\ e_writer = "none"
    /\ e_written = <<>>
    /\ e_frames_written = 0
    /\ e_ret = "pending"
    /\ e_reads = 0

\* The function returns None: by an early return or through the except
\* clause of line 234, after the with block was left.
EncFail(how) ==
    /\ e_pc' = "done"
    /\ e_ret' = "None"
    /\ e_fs' = LeaveWith(e_fs, how)
    /\ UNCHANGED <<e_n, e_given, e_undecodable, e_i, e_image_files,
                   e_writer, e_written, e_frames_written>>

\* Lines 190-199: the output directory and the temporary frame directory are
\* created, or one of the calls raises before the with block is entered.
EncStart ==
    /\ e_pc = "call"
    /\ \E fault \in BOOLEAN :
        IF fault
        THEN /\ e_pc' = "done"
             /\ e_ret' = "None"
             /\ UNCHANGED <<e_fs, e_image_files>>
        ELSE /\ e_pc' = "rasterize"
             /\ e_fs' = e_fs \cup {DirOf(OutputPath(e_given)), FramesDir}
             /\ e_image_files' = <<>>
             /\ UNCHANGED e_ret
    /\ UNCHANGED <<e_n, e_given, e_undecodable, e_i, e_writer, e_written,
                   e_frames_written, e_reads>>
    /\ UNCHANGED notVideo

\* Lines 200-207: frame e_i is written as a still image, which cv2 will be
\* able to decode or not, or write_image raises and the frame is skipped.
EncRasterize ==
    /\ e_pc = "rasterize"
    /\ e_i < e_n
    /\ \E saved \in BOOLEAN, decodable \in BOOLEAN :
        IF saved
        THEN /\ e_fs' = e_fs \cup {ImagePath(e_i)}
             /\ e_image_files' = Append(e_image_files, e_i)
             /\ e_undecodable' = IF decodable THEN e_undecodable
                                 ELSE e_undecodable \cup {e_i}
        ELSE /\ decodable
             /\ UNCHANGED <<e_fs, e_image_files, e_undecodable>>
    /\ e_i' = e_i + 1
    /\ UNCHANGED <<e_pc, e_n, e_given, e_writer, e_written, e_frames_written,
                   e_ret, e_reads>>
    /\ UNCHANGED notVideo

\* Lines 209-211: no image was saved.
EncCheckImages ==
    /\ e_pc = "rasterize"
    /\ e_i >= e_n
    /\ IF e_image_files = <<>>
       THEN EncFail("abort")
       ELSE /\ e_pc' = "read_first"
            /\ UNCHANGED <<e_n, e_given, e_fs, e_undecodable, e_i, e_image_files,
                           e_writer, e_written, e_frames_written, e_ret>>
    /\ UNCHANGED e_reads
    /\ UNCHANGED notVideo

\* The first image read back without the check of what imread returned.
EncReadFirstNoCheck ==
    /\ e_pc = "read_first"
    /\ e_pc' = "open"
    /\ e_reads' = e_reads + 1
    /\ UNCHANGED <<e_n, e_given, e_fs, e_undecodable, e_i, e_image_files,
                   e_writer, e_written, e_frames_written, e_ret>>
    /\ UNCHANGED notVideo

\* Lines 213-216: the first image is read back.
EncReadFirst ==
    /\ e_pc = "read_first"
    /\ IF e_image_files[1] \in e_undecodable
       THEN EncFail("abort")
       ELSE /\ e_pc' = "open"
            /\ UNCHANGED <<e_n, e_given, e_fs, e_undecodable, e_i, e_image_files,
                           e_writer, e_written, e_frames_written, e_ret>>
    /\ e_reads' = e_reads + 1
    /\ UNCHANGED notVideo

\* Lines 218-222: the writer is constructed. It creates the output file when
\* it can open it and is left unopened (without an exception) when it cannot;
\* or the construction raises.
EncOpenWriter ==
    /\ e_pc = "open"
    /\ \E outcome \in {"open", "failed", "raise"} :
        IF outcome = "raise"
        THEN EncFail("exception")
        ELSE /\ e_pc' = "write"
             /\ e_writer' = outcome
             /\ e_fs' = IF outcome = "open"
                        THEN e_fs \cup {OutputPath(e_given)} ELSE e_fs
             /\ e_i' = 1
             /\ e_frames_written' = 0
             /\ UNCHANGED <<e_n, e_given, e_undecodable, e_image_files,
                            e_written, e_ret>>
    /\ UNCHANGED e_reads
    /\ UNCHANGED notVideo

\* A write loop that walks image_files from its last element to its first.
EncWriteFrameReversed ==
    /\ e_pc = "write"
    /\ e_i <= Len(e_image_files)
    /\ LET file == e_image_files[Len(e_image_files) + 1 - e_i]
       IN /\ e_reads' = e_reads + 1
          /\ IF file \in e_undecodable
             THEN UNCHANGED <<e_written, e_frames_written>>
             ELSE /\ e_written' = IF e_writer = "open"
                                  THEN Append(e_written, file) ELSE e_written
                  /\ e_frames_written' = e_frames_written + 1
    /\ e_i' = e_i + 1
    /\ UNCHANGED <<e_pc, e_n, e_given, e_fs, e_undecodable,
                   e_image_files, e_writer, e_ret>>
    /\ UNCHANGED notVideo

\* Lines 223-229: one image is read back and written to the container, or
\* skipped when it cannot be decoded; or a call of the iteration raises.
EncWriteFrame ==
    /\ e_pc = "write"
    /\ e_i <= Len(e_image_files)
    /\ \E fault \in BOOLEAN :
        IF fault
        THEN EncFail("exception") /\ UNCHANGED e_reads
        ELSE /\ e_reads' = e_reads + 1
             /\ IF e_image_files[e_i] \in e_undecodable
                THEN UNCHANGED <<e_written, e_frames_written>>
                ELSE /\ e_written' = IF e_writer = "open"
                                     THEN Append(e_written, e_image_files[e_i])
                                     ELSE e_written
                     /\ e_frames_written' = e_frames_written + 1
             /\ e_i' = e_i + 1
             /\ UNCHANGED <<e_pc, e_n, e_given, e_fs, e_undecodable,
                            e_image_files, e_writer, e_ret>>
    /\ UNCHANGED notVideo

\* Lines 231-233: the writer is released and the path returned.
EncRelease ==
    /\ e_pc = "write"
    /\ e_i > Len(e_image_files)
    /\ e_pc' = "done"
    /\ e_writer' = IF e_writer = "open" THEN "released" ELSE e_writer
    /\ e_ret' = "output_path"
    /\ e_fs' = LeaveWith(e_fs, "return")
    /\ UNCHANGED <<e_n, e_given, e_undecodable, e_i, e_image_files,
                   e_written, e_frames_written, e_reads>>
    /\ UNCHANGED notVideo

VideoNext ==
    \/ EncStart \/ EncRasterize \/ EncCheckImages \/ EncReadFirst
    \/ EncOpenWriter \/ EncWriteFrame \/ EncRelease

(***************************************************************************)
(* add_animation_interface after "Generate Animation" was pressed, in a    *)
(* run of main on the Animation tab: the frames are made, the encoder is   *)
(* called without an output_path, the video is read back, and the run ends *)
(* with cleanup_temp_files.                                                *)
(***************************************************************************)
\* The handler before the button is pressed.
ExportIdle == x_pc = "idle" /\ x_msgs = {} /\ x_link = FALSE

\* The button was pressed.
ExportInit == x_pc = "button" /\ x_msgs = {} /\ x_link = FALSE

\* Lines 286-292 and 310-311: create_animated_visualization returns a list
\* of some length; an empty one is reported, another is passed to
\* generate_video_from_frames(frames, fps=fps).
ExportFrames ==
    /\ x_pc = "button"
    /\ \E n \in 0..MaxFrames :
        IF n = 0
        THEN /\ x_msgs' = {"frames_failed"}
             /\ x_pc' = "cleanup"
             /\ UNCHANGED <<e_pc, e_n, e_given>>
        ELSE /\ x_pc' = "encoding"
             /\ e_pc' = "call"
             /\ e_n' = n
             /\ e_given' = FALSE
             /\ UNCHANGED x_msgs
    /\ UNCHANGED <<x_link, e_fs, e_undecodable, e_i, e_image_files, e_writer,
                   e_written, e_frames_written, e_ret, e_reads>>
    /\ UNCHANGED notExport

\* Lines 295-309 and 313-315: a path that exists is read into memory for the
\* download link (or holds no bytes, or cannot be opened); anything else is
\* reported as a failed generation. Nothing is removed.
ExportReadBack ==
    /\ x_pc = "encoding"
    /\ e_pc = "done"
    /\ IF e_ret = "output_path" /\ OutputPath(e_given) \in e_fs
       THEN \E read \in {"bytes", "empty", "raise"} :
               /\ x_link' = (read = "bytes")
               /\ x_msgs' = {"success"} \cup
                            (CASE read = "bytes" -> {}
                               [] read = "empty" -> {"read_failed"}
                               [] read = "raise" -> {"error"})
       ELSE /\ x_link' = FALSE
            /\ x_msgs' = {"video_failed"}
    /\ x_pc' = "cleanup"
    /\ UNCHANGED videoVars
    /\ UNCHANGED notExport

\* main, line 257: the run ends with cleanup_temp_files.
ExportCleanup ==
    /\ x_pc = "cleanup"
    /\ \E unlink_fails \in BOOLEAN :
        LET c == CleanupTempFiles(e_fs, unlink_fails)
        IN /\ e_fs' = c.fs
           /\ x_msgs' = x_msgs \cup (IF c.warned THEN {"cleanup_warning"} ELSE {})
    /\ x_pc' = "finished"
    /\ UNCHANGED <<x_link, e_pc, e_n, e_given, e_undecodable, e_i,
                   e_image_files, e_writer, e_written, e_frames_written,
                   e_ret, e_reads>>
    /\ UNCHANGED notExport

ExportNext ==
    \/ ExportFrames
    \/ EncStart \/ EncRasterize \/ EncCheckImages \/ EncReadFirst
    \/ EncOpenWriter \/ EncWriteFrame \/ EncRelease
    \/ ExportReadBack \/ ExportCleanup

InitAnim ==
    AnimInit /\ VizIdle /\ ParseIdle /\ SessIdle /\ VideoIdle /\ ExportIdle

SpecAnim == InitAnim /\ [][AnimNext]_vars

InitViz ==
    VizInit /\ AnimIdle /\ ParseIdle /\ SessIdle /\ VideoIdle /\ ExportIdle

InitParse ==
    ParseInit /\ AnimIdle /\ VizIdle /\ SessIdle /\ VideoIdle /\ ExportIdle

InitSession ==
    SessInit /\ AnimIdle /\ VizIdle /\ ParseIdle /\ VideoIdle /\ ExportIdle

SpecSession == InitSession /\ [][SessNext]_vars

InitVideo ==
    VideoInit /\ AnimIdle /\ VizIdle /\ ParseIdle /\ SessIdle /\ ExportIdle

SpecVideo == InitVideo /\ [][VideoNext]_vars

SpecParse == InitParse /\ [][ParseNext]_vars

SpecViz == InitViz /\ [][VizNext]_vars

InitExport ==
    ExportInit /\ VideoIdle /\ AnimIdle /\ VizIdle /\ ParseIdle /\ SessIdle

SpecExport == InitExport /\ [][ExportNext]_vars

(***************************************************************************)
(* Properties of create_animated_visualization.                            *)
(***************************************************************************)
IsLineOrScatter == Has(a_cfg, "type") /\ a_cfg.type \in {"line", "scatter"}

\* C1: for every duration D >= 0, fps F >= 0 and every configuration, the
\* returned list has length D * F or 0: an unsupported kind or an exception in
\* any frame yields the empty list, never a partial one.
C1_FrameCount ==
    a_pc = "done" => Len(a_ret) \in {a_duration * a_fps, 0}

\* C1 witness: an exception in a later frame, after frames were appended,
\* returned the empty list.
C1_Witness ==
    a_pc = "done" /\ Len(a_frames) > 0 /\ Len(a_frames) < TotalFrames /\ a_ret = <<>>

\* C2: ease(0) = 0, ease(1) = 1, and the progress values of the frame sequence
\* are non-decreasing: ease(i / N) <= ease(j / N) for all i < j in 0..N-1, both
\* as computed and as stored in the frames built (the marker opacity of a
\* line or scatter frame is its progress value).
C2_EaseMonotone ==
    /\ TotalFrames > 0 =>
        /\ EaseNum(0, TotalFrames) = 0
        /\ EaseNum(TotalFrames, TotalFrames) = EaseDen(TotalFrames)
        /\ \A i, j \in 0..(TotalFrames - 1) :
              i < j => EaseNum(i, TotalFrames) <= EaseNum(j, TotalFrames)
    /\ IsLineOrScatter =>
        \A i, j \in 1..Len(a_frames) :
              i < j => a_frames[i].opacity <= a_frames[j].opacity

\* C2 witness: a returned line or scatter sequence of frames on both sides of
\* t = 0.5 whose progress starts at 0 and grows.
C2_Witness ==
    /\ a_pc = "done" /\ IsLineOrScatter /\ TotalFrames >= 4
    /\ Len(a_ret) = TotalFrames
    /\ a_ret[1].opacity = 0
    /\ a_ret[2].opacity < a_ret[TotalFrames].opacity

\* C3 (as claimed): for line and scatter animations the number of visible
\* points at frame 0 is exactly 2, for every table.
C3_Original ==
    (IsLineOrScatter /\ Len(a_frames) >= 1) => Len(a_frames[1].y) = 2

\* C3 (amended): at frame 0 points_to_show is exactly 2, and the number of
\* visible points is min(2, point count): exactly 2 for every table of at
\* least 2 rows, the whole table when it has fewer.
C3_FirstFrame ==
    (IsLineOrScatter /\ Len(a_frames) >= 1) =>
        /\ a_frames[1].points_to_show = 2
        /\ Len(a_frames[1].y) = Min(2, Len(a_df))
        /\ (Len(a_df) >= 2 => Len(a_frames[1].y) = 2)

\* C3 witness: frame 0 of a line or scatter animation of a table of more
\* than 2 rows shows 2 points.
C3_Witness ==
    /\ IsLineOrScatter /\ Len(a_frames) >= 1
    /\ Len(a_df) > 2 /\ Len(a_frames[1].y) = 2

\* C4 (as claimed): for line and scatter animations the number of visible
\* points at the last frame (index totalFrames - 1) equals the full point
\* count of the table.
C4_LastFrameFull ==
    (a_pc = "done" /\ IsLineOrScatter /\ TotalFrames >= 1
        /\ Len(a_ret) = TotalFrames) =>
        Len(a_ret[TotalFrames].y) = Len(a_df)

\* The cubic ease-in-out of t = i / n, as a numerator over EaseDen(n):
\* 4 t^3 for t < 0.5 and 1 - (-2 t + 2)^3 / 2 otherwise.
CubicInOutNum(i, n) ==
    IF 2 * i < n THEN 8 * i * i * i
    ELSE EaseDen(n) - (2 * n - 2 * i) * (2 * n - 2 * i) * (2 * n - 2 * i)

\* C16 (as claimed): the progress value at frame i is the cubic ease-in-out
\* of t = i / totalFrames (4 t^3 below 0.5, 1 - (-2 t + 2)^3 / 2 from 0.5 on),
\* and the function is continuous at t = 0.5: both branches give 0.5 there.
C16_EaseIsCubicInOut ==
    /\ IsLineOrScatter =>
        \A k \in 1..Len(a_frames) :
            a_frames[k].opacity = CubicInOutNum(k - 1, TotalFrames)
    /\ (TotalFrames > 0 /\ TotalFrames % 2 = 0) =>
        /\ EaseInNum(TotalFrames \div 2, TotalFrames)
              = EaseNum(TotalFrames \div 2, TotalFrames)
        /\ 2 * EaseNum(TotalFrames \div 2, TotalFrames) = EaseDen(TotalFrames)

IsBar ==
    Has(a_cfg, "type")
    /\ a_cfg.type \in {"basic_bar", "stacked_bar", "grouped_bar"}

\* C17 (as claimed): for bar animations the heights at frame i are the true
\* y values times progress(i); frame 0 shows every height 0 and the final
\* frame N - 1 shows the true values; the opacity is min(1, 1.2 * progress)
\* and is 1 at some frame whose heights are still below full.
C17_BarGrowth ==
    (a_pc = "done" /\ IsBar /\ TotalFrames >= 1 /\ Len(a_ret) = TotalFrames) =>
        /\ \A i \in 1..TotalFrames :
              /\ \A k \in 1..Len(a_df) :
                    a_ret[i].y[k] = a_df[k] * EaseNum(i - 1, TotalFrames)
              /\ a_ret[i].opacity
                    = Min(10 * EaseDen(TotalFrames),
                          12 * EaseNum(i - 1, TotalFrames))
        /\ \A k \in 1..Len(a_df) : a_ret[1].y[k] = 0
        /\ \A k \in 1..Len(a_df) :
              a_ret[TotalFrames].y[k] = a_df[k] * EaseDen(TotalFrames)
        /\ \E i \in 1..TotalFrames :
              /\ a_ret[i].opacity = 10 * EaseDen(TotalFrames)
              /\ EaseNum(i - 1, TotalFrames) < EaseDen(TotalFrames)

\* C18 (as claimed): a failure while constructing a single frame is logged
\* and only that frame is skipped, the frames built before it still being
\* returned; the stage reports total failure only when zero frames were
\* produced.
C18_Original ==
    /\ (a_pc \in {"done", "reported"} /\ a_logged > 0) =>
            Len(a_ret) >= Len(a_frames)
    /\ (a_pc = "reported" /\ a_stage = "frames_failed") => Len(a_frames) = 0

\* C18 (amended): a failure while constructing any frame is logged once and
\* discards the whole sequence: the generator returns the empty list, not the
\* frames built before the failure, and a non-empty result holds every frame
\* with nothing logged; the stage reports total failure exactly when the
\* list it got back is empty.
C18_FrameFailureIsTotal ==
    /\ a_pc \in {"done", "reported"} =>
        /\ a_logged \in {0, 1}
        /\ a_logged = 1 => a_ret = <<>>
        /\ a_ret # <<>> => (Len(a_ret) = TotalFrames /\ a_logged = 0)
    /\ a_pc = "reported" => (a_stage = "frames_failed" <=> a_ret = <<>>)
    /\ a_pc # "reported" => a_stage = "none"

\* C18 witness: a frame failed after another was built, the failure was
\* logged, nothing was returned and the stage reported total failure.
C18_Witness ==
    /\ a_pc = "reported" /\ a_logged = 1
    /\ Len(a_frames) > 0 /\ Len(a_frames) < TotalFrames
    /\ a_ret = <<>> /\ a_stage = "frames_failed"

IsPie == Has(a_cfg, "type") /\ a_cfg.type = "pie"

RECURSIVE RunningTotal(_, _)
\* The sum of the first k values of a column.
RunningTotal(ys, k) == IF k <= 0 THEN 0 ELSE ys[k] + RunningTotal(ys, k - 1)

\* C21: in the pie animation (values are non-negative) the value a slice
\* shows at frame i is min(true value, (cumulativeSum / totalFrames) * (i + 1)),
\* here times totalFrames; so it never exceeds the true value, never shrinks
\* from one frame to the next, and is the true value at the last frame; the
\* labels are hidden exactly at the frames with i < 0.8 * totalFrames.
C21_PieGrowth ==
    IsPie =>
        /\ \A f \in 1..Len(a_frames) :
              /\ \A k \in 1..Len(a_df) :
                    /\ a_frames[f].y[k]
                          = Min(a_df[k] * TotalFrames, RunningTotal(a_df, k) * f)
                    /\ a_frames[f].y[k] <= a_df[k] * TotalFrames
                    /\ f > 1 => a_frames[f - 1].y[k] <= a_frames[f].y[k]
              /\ a_frames[f].textinfo = "none" <=> 10 * (f - 1) < 8 * TotalFrames
              /\ a_frames[f].textinfo \in {"none", "label+percent"}
        /\ (a_pc = "done" /\ TotalFrames >= 1 /\ Len(a_ret) = TotalFrames) =>
              \A k \in 1..Len(a_df) :
                  a_ret[TotalFrames].y[k] = a_df[k] * TotalFrames

\* C21 witness: a returned pie sequence of several slices whose second slice
\* starts below its true value and ends at it, with the labels hidden at the
\* first frame and shown at the last.
C21_Witness ==
    /\ IsPie /\ a_pc = "done" /\ TotalFrames >= 5 /\ Len(a_ret) = TotalFrames
    /\ Len(a_df) >= 2
    /\ a_ret[1].y[2] < a_df[2] * TotalFrames
    /\ a_ret[TotalFrames].y[2] = a_df[2] * TotalFrames
    /\ a_ret[1].textinfo = "none"
    /\ a_ret[TotalFrames].textinfo = "label+percent"

(***************************************************************************)
(* Properties of create_advanced_visualization.                            *)
(***************************************************************************)
SupportedKind ==
    v_type \in {"basic_bar", "stacked_bar", "grouped_bar", "line", "scatter"}

HasRequiredKeys ==
    Has(v_config, "x") /\ Has(v_config, "y") /\ Has(v_config, "title")

\* The configuration holds x, y and title, and every column it names (x, y,
\* and color when it names one) is a column of the table.
ValidConfig ==
    /\ HasRequiredKeys
    /\ v_config.x \in TableColumns
    /\ v_config.y \in TableColumns
    /\ HasColor(v_config) => v_config.color \in TableColumns

\* The call fails to construct its chart: a required key is missing, or a
\* column the branch passes to the figure library is not in the table.
ConstructionFailure ==
    /\ SupportedKind
    /\ \/ ~HasRequiredKeys
       \/ v_config.x \notin TableColumns
       \/ v_config.y \notin TableColumns
       \/ /\ v_type \in {"stacked_bar", "grouped_bar"}
          /\ HasColor(v_config)
          /\ v_config.color \notin TableColumns

IsFigure(f) ==
    DOMAIN f = {"kind", "x", "y", "color", "barmode", "title",
                "xaxis_title", "yaxis_title"}

\* C5: for every supported chart kind and every configuration whose
\* referenced columns exist in the table, the mapper returns a figure,
\* reports no error and never returns None.
C5_ValidGivesFigure ==
    (v_pc = "done" /\ SupportedKind /\ ValidConfig) =>
        /\ v_ret # NoneFig /\ IsFigure(v_ret)
        /\ v_errors = 0 /\ ~v_raised

\* C5 witness: a grouped bar chart colored by an existing column was
\* returned.
C5_Witness ==
    /\ v_pc = "done" /\ v_type = "grouped_bar" /\ ValidConfig
    /\ HasColor(v_config) /\ v_ret # NoneFig /\ v_ret.color = v_config.color

\* C6 (as claimed): for stacked_bar and grouped_bar with the color key absent
\* the result is a plain non-colored bar chart equivalent to the one basic_bar
\* returns for the same table, x and y; with color present, grouped_bar and
\* only grouped_bar sets the side-by-side bar mode.
C6_FallbackIsBasicBar ==
    (v_pc = "done" /\ v_type \in {"stacked_bar", "grouped_bar"}) =>
        /\ ~Has(v_config, "color") =>
            /\ v_ret = CreateAdvancedVisualization("basic_bar", v_config).ret
            /\ v_ret # NoneFig => v_ret.color = NoColor
        /\ (HasColor(v_config) /\ v_ret # NoneFig) =>
            (v_ret.barmode = "group" <=> v_type = "grouped_bar")

\* C7: the mapper never raises; for an unsupported kind and for any
\* construction failure (a missing column, a missing required key) it reports
\* one error and returns None; what it returns is None or a whole figure.
C7_FailureIsNone ==
    v_pc = "done" =>
        /\ ~v_raised
        /\ (~SupportedKind \/ ConstructionFailure) =>
              (v_ret = NoneFig /\ v_errors = 1)
        /\ v_ret = NoneFig \/ IsFigure(v_ret)

\* C7 witness: a supported kind with a configuration that lacks a required
\* key returned None after reporting the error.
C7_Witness ==
    /\ v_pc = "done" /\ SupportedKind /\ ~HasRequiredKeys
    /\ v_ret = NoneFig /\ v_errors = 1 /\ ~v_raised

(***************************************************************************)
(* Properties of insight parsing.                                          *)
(***************************************************************************)
\* Position i (1-based) holds the first "{" of the response text.
IsFirstOpen(i) == p_api[i] = "{" /\ \A k \in 1..(i - 1) : p_api[k] # "{"

\* Position j (1-based) holds the last "}" of the response text.
IsLastClose(j) == p_api[j] = "}" /\ \A k \in (j + 1)..Len(p_api) : p_api[k] # "}"

ParsedACall == p_pc = "done" /\ p_client_ok /\ p_df_ok /\ p_api # ApiError

\* C8: the parser takes exactly the substring from the first "{" to the last
\* "}" inclusive and parses only that, so JSON wrapped in prose comes back as
\* the parsed object; with no "{", no "}", or the last "}" before the first
\* "{", generate_insights reports the failure and returns None; no exception
\* escapes it.
C8_ParseBraceSpan ==
    ParsedACall =>
        /\ ~p_raised
        /\ \A i, j \in 1..Len(p_api) :
              (IsFirstOpen(i) /\ IsLastClose(j) /\ i < j) =>
                 LET r == JsonLoads(SubSeq(p_api, i, j))
                 IN IF Has(r, "raised")
                    THEN p_ret = NoInsights /\ p_errors = 1
                    ELSE p_ret = r.value /\ p_errors = 0
        /\ (~\E i, j \in 1..Len(p_api) :
                IsFirstOpen(i) /\ IsLastClose(j) /\ i < j) =>
              (p_ret = NoInsights /\ p_errors = 1)

\* C8 witness: a JSON object with prose before and after it came back
\* parsed.
C8_Witness ==
    /\ ParsedACall
    /\ Len(p_api) >= 4 /\ p_api[1] = "p" /\ p_api[Len(p_api)] = "p"
    /\ p_ret = <<"obj">>

\* The call fails: a type check rejects an argument, the remote call raises,
\* or the response has no brace span or a malformed one.
InsightFailure ==
    \/ ~p_client_ok
    \/ ~p_df_ok
    \/ p_api = ApiError
    \/ Has(CleanAndParseJson(p_api), "raised")

\* C14: one invocation of generate_insights issues at most one remote call,
\* none when the client or the table fails its type check, and does not
\* retry after a failure; on every failure it returns None, no exception
\* escapes it, and the table it was given is unchanged.
C14_InsightsOneCall ==
    [][(p_pc = "call" /\ p_pc' = "done") =>
          /\ p_calls' \in {p_calls, p_calls + 1}
          /\ (~p_client_ok \/ ~p_df_ok) => p_calls' = p_calls
          /\ InsightFailure => (p_ret' = NoInsights /\ p_calls' <= p_calls + 1)
          /\ ~p_raised'
          /\ p_df' = p_df]_vars

\* C14 witness: a call with a valid client and a non-empty table whose
\* response was malformed returned None after exactly one remote call.
C14_Witness ==
    /\ p_pc = "done" /\ p_client_ok /\ p_df = DataFrame(<<3, 1>>)
    /\ p_api # ApiError /\ p_calls = 1
    /\ p_ret = NoInsights /\ p_errors = 1 /\ ~p_raised

(***************************************************************************)
(* Properties of the upload handler.                                       *)
(***************************************************************************)
\* The run that led to this state handled "Process File Upload" with a file
\* that failed to parse or held 0 rows.
InvalidUploadHandled ==
    /\ s_event.kind = "upload"
    /\ s_event.df = NoneDf \/ Empty(s_event.df)

\* C9: when the uploaded file fails to parse or yields a table of 0 rows, the
\* upload handler reports invalid input, does not call generate_insights, and
\* leaves the session state unchanged: data_loaded stays False, df and
\* insights keep their values.
C9_InvalidUploadNoChange ==
    [][InvalidUploadHandled' =>
          /\ "invalid_upload" \in s_msgs'
          /\ s_insight_calls' = s_insight_calls
          /\ ~s_data_loaded'
          /\ UNCHANGED sessionState]_vars

\* C9 witness: an upload of a table of 0 rows was handled and reported.
C9_Witness ==
    /\ s_event.kind = "upload" /\ s_event.df # NoneDf /\ Empty(s_event.df)
    /\ "invalid_upload" \in s_msgs

(***************************************************************************)
(* Properties of the animation export.                                     *)
(***************************************************************************)
\* C11 (as claimed): the video is created, then read back for the download
\* link, then deleted: when the export handler has finished, the video file
\* and the directory made to hold it (no output path being given) no longer
\* exist.
C11_VideoDeleted ==
    /\ x_link => e_ret = "output_path"
    /\ x_pc = "finished" =>
          /\ OutputPath(FALSE) \notin e_fs
          /\ DirOf(OutputPath(FALSE)) \notin e_fs

(***************************************************************************)
(* Properties of the runs of main.                                         *)
(***************************************************************************)
\* C12 (as claimed): every run of main that ends, normally, by an early
\* return or by an exception caught at the top level, invoked
\* cleanup_temp_files before it ended; and cleanup_temp_files never raises,
\* whether a removal fails or not.
C12_CleanupOnEveryEnd ==
    /\ s_end \in {"return", "early_return", "caught"} => s_cleaned
    /\ \A unlink_fails \in BOOLEAN :
          ~CleanupTempFiles(s_fs, unlink_fails).raised

\* C13: when the API key is absent, a run of main reports the error of
\* init_groq_client and its own, ends by its early return (no exception, at
\* the top level or beyond), and runs no handler: the session state, the
\* count of insight calls and the temporary files are as before.
C13_NoClientNoHandlers ==
    [][~s_api_key =>
          /\ s_event'.kind = "no_client"
          /\ {"client_init_error", "client_failed"} \subseteq s_msgs'
          /\ s_end' = "early_return"
          /\ UNCHANGED sessionState
          /\ s_insight_calls' = s_insight_calls
          /\ s_fs' = s_fs]_vars

\* C13 witness: a run without the API key reported both errors and returned
\* early with nothing loaded.
C13_Witness ==
    /\ ~s_api_key /\ s_event.kind = "no_client"
    /\ s_msgs = {"client_init_error", "client_failed"}
    /\ s_end = "early_return" /\ ~s_data_loaded /\ s_df = NoneDf

\* C15: the session table changes only in a run of a load handler (file
\* upload or survey text) that accepted a table, and then it is that table,
\* whole; no render of a tab, no tab switch and no run without a client
\* changes it, and once a table is loaded no run changes it.
C15_TableImmutable ==
    [][/\ s_df' # s_df =>
            /\ s_event'.kind \in {"upload", "survey_text"}
            /\ s_event'.accepted
            /\ s_df' = s_event'.df
       /\ s_event'.kind \in {"render", "navigate", "no_client"} => s_df' = s_df
       /\ s_data_loaded => s_df' = s_df]_vars

\* C15 witness: the Data Profile tab was drawn over a loaded table of
\* several rows.
C15_Witness ==
    /\ s_data_loaded /\ s_event.kind = "render"
    /\ s_event.tab = "Data Profile" /\ s_end = "return"
    /\ s_df # NoneDf /\ Len(s_df.rows) >= 2

\* C22: in every reachable session state data_loaded = True implies that df
\* is a table (not None) of at least one row, whichever load path stored it
\* and whether or not the insight request that followed succeeded.
C22_LoadedMeansTable ==
    s_data_loaded => (s_df # NoneDf /\ ~Empty(s_df))

\* C22 witness: the survey text path loaded a table and the insight request
\* failed, so insights is None while data_loaded is True.
C22_Witness ==
    /\ s_data_loaded /\ s_event.kind = "survey_text" /\ s_event.accepted
    /\ s_insights = NoInsights /\ "insights_failed" \in s_msgs
    /\ s_df # NoneDf /\ Len(s_df.rows) >= 1

\* C23: active_tab starts as Visualization and is always one of the four
\* tabs; it changes only in a run that began with data_loaded True, so a tab
\* other than Visualization implies data_loaded; and initialize_session_state
\* gives a fresh session its defaults and leaves every value of a session
\* that is already set as it is.
C23_ActiveTab ==
    /\ s_active_tab = "Visualization"
    /\ SessionDict = InitializeSessionState(<<>>)
    /\ [](/\ s_active_tab \in Tabs
          /\ s_active_tab # "Visualization" => s_data_loaded
          /\ InitializeSessionState(SessionDict) = SessionDict)
    /\ [][s_active_tab' # s_active_tab => s_data_loaded]_vars

\* C23 witness: with a table loaded, a navigation button set a tab other
\* than Visualization.
C23_Witness ==
    /\ s_data_loaded /\ s_event.kind = "navigate"
    /\ s_active_tab = "Animation" /\ s_event.tab = "Animation"

(***************************************************************************)
(* Properties of generate_video_from_frames.                               *)
(***************************************************************************)
\* C10: after generate_video_from_frames returns, on every path (video
\* produced, zero images rasterized, first image undecodable, an exception
\* mid-loop) the temporary frame directory and all still images in it no
\* longer exist; on the success path the produced video file still exists,
\* because it lives outside that directory.
C10_FramesDirRemoved ==
    e_pc = "done" =>
        /\ \A path \in e_fs : path[1] # "frames"
        /\ (e_ret = "output_path" /\ e_writer = "released") =>
              (OutputPath(e_given) \in e_fs /\ DirOf(OutputPath(e_given)) \in e_fs)

\* C10 witness: an exception in the write loop, after still images were
\* saved and frames written, ended the call.
C10_Witness ==
    /\ e_pc = "done" /\ e_ret = "None"
    /\ Len(e_image_files) >= 2 /\ Len(e_written) >= 1
    /\ e_writer = "open"

\* The container was opened or written: a writer was constructed, a frame was
\* written, or the output file exists.
ContainerTouched ==
    e_writer # "none" \/ e_written # <<>> \/ OutputPath(e_given) \in e_fs

\* C19: the writer is constructed only after at least one frame was
\* rasterized and the first image was read and decoded; a call that
\* rasterized no image returns None without a single image read, a call
\* whose first image is undecodable returns None after that one read, and
\* neither abort opened or wrote the output container.
C19_OpenAfterFirstDecode ==
    /\ e_writer # "none" =>
        /\ e_image_files # <<>>
        /\ e_image_files[1] \notin e_undecodable
        /\ e_reads >= 1
    /\ (e_pc = "done" /\ e_image_files = <<>>) =>
        (e_ret = "None" /\ e_reads = 0 /\ ~ContainerTouched)
    /\ (e_pc = "done" /\ e_image_files # <<>>
            /\ e_image_files[1] \in e_undecodable) =>
        (e_ret = "None" /\ e_reads = 1 /\ ~ContainerTouched)

\* C19 witness: two frames were rasterized, the first could not be decoded,
\* and the call returned None after one read with no writer.
C19_Witness ==
    /\ e_pc = "done" /\ Len(e_image_files) >= 2
    /\ e_image_files[1] \in e_undecodable
    /\ e_ret = "None" /\ e_reads = 1 /\ e_writer = "none"

\* What the container holds is a strictly increasing sequence of indices of
\* input frames that were rasterized and decoded.
WrittenInOrder ==
    /\ \A j, k \in 1..Len(e_written) : j < k => e_written[j] < e_written[k]
    /\ \A k \in 1..Len(e_written) :
          /\ e_written[k] \in 0..(e_n - 1)
          /\ \E m \in 1..Len(e_image_files) : e_image_files[m] = e_written[k]
          /\ e_written[k] \notin e_undecodable
    /\ Len(e_written) <= e_n

\* C20: still images are written in strictly increasing input-frame index
\* order, each at most once, and only while the writer is open; only the
\* frames whose rasterization or read-back failed are skipped, so at most as
\* many frames are written as were given; and when the path is returned the
\* writer is no longer open.
C20_WritesInOrder ==
    [][/\ e_written' # e_written =>
            (e_writer = "open" /\ e_writer' = "open"
             /\ Len(e_written') = Len(e_written) + 1)
       /\ WrittenInOrder'
       /\ e_ret' = "output_path" =>
            /\ e_writer' \in {"released", "failed"}
            /\ e_writer' = "released" =>
                  e_written' = SelectSeq(e_image_files',
                                         LAMBDA f : f \notin e_undecodable')]_vars

\* C20 witness: of three frames the middle one was skipped, frames 0 and 2
\* were written in that order, the writer was released and the path returned.
C20_Witness ==
    /\ e_pc = "done" /\ e_ret = "output_path" /\ e_writer = "released"
    /\ e_n = 3 /\ e_written = <<0, 2>>

====
